---- MODULE Spec2Model ----
(***************************************************************************)
(* Campus admin backend: the LLM tool-calling dispatch loop of             *)
(* backend/agent.py (CampusAgent.chat and CampusAgent.chat_stream), the    *)
(* guardrail filter of backend/utils.py and the tool catalogue of          *)
(* backend/tools.py that the loop dispatches to.                           *)
(*                                                                         *)
(* Text is a sequence of one-character strings, so that lower-casing,      *)
(* substring search and the concatenation of streamed fragments are        *)
(* computed and not assumed.                                               *)
(***************************************************************************)
EXTENDS Integers, Sequences, FiniteSets, TLC

VARIABLES
    db,                  \* rows of the conversations table, in insertion order
    conversation_memory, \* CampusAgent.conversation_memory: session_id -> list of messages
    activity_log,        \* rows of the activity table written by CampusTools._log_activity
    students,            \* rows of the students table the tools work on: id -> fields
    turns,               \* chat turns started so far
    pc,                  \* position of the running turn inside chat / chat_stream
    mode,                \* "chat" or "stream"
    session_id,          \* the turn's session_id (after the uuid default)
    caller_session_id,   \* the session_id argument as the caller passed it
    message,             \* the turn's user message
    messages,            \* the turn's working message list
    response_message,    \* response.choices[0].message of the first reasoning call
    function_result,     \* value returned by _execute_function
    stream,              \* chunks of the open streaming completion not yet read
    full_response,       \* final_message (chat) / full_response (chat_stream)
    result,              \* the dict chat returns
    events,              \* the events chat_stream has yielded, in order
    calls,               \* requests this turn sent to the reasoning service, in order
    invoked,             \* calls of tool attributes this turn made, in order
    failure,             \* where the turn's exception was raised ("" while none)
    saved,               \* outcome of _save_conversation in this turn
    printed,             \* lines the turn printed on standard output
    db0,                 \* db when the turn started
    history0,            \* history returned by _get_conversation_history at turn start
    service,             \* the reasoning service: kind of request -> texts it may answer with
    g_message,           \* input of the guardrail run
    g_verdict,           \* output of the guardrail run
    ev_pending,          \* items the response generator of /chat/stream has yet to yield
    ev_forwarded,        \* events event_generator has sent to the client, in order
    ev_pc,               \* position of event_generator
    client_connected,    \* the client of /chat/stream is still connected
    users,               \* the users table: email -> hashed password and role
    issued,              \* access tokens /auth/token has issued
    http,                \* the last request of the REST API and its response
    student_docs,        \* the students collection of tools_new.py, in natural order
    activity_docs,       \* the activity_logs collection of tools_new.py
    tasks,               \* the calls of tools_new.CampusTools that are in progress
    tool_ops             \* number of calls of tools_new.CampusTools started

vars == <<db, conversation_memory, activity_log, students, turns, pc, mode,
          session_id, caller_session_id, message, messages, response_message,
          function_result, stream, full_response, result, events, calls, invoked,
          failure, saved, printed, db0, history0, service, g_message, g_verdict,
          ev_pending, ev_forwarded, ev_pc, client_connected, users, issued, http,
          student_docs, activity_docs, tasks, tool_ops>>

turnVars == <<db, conversation_memory, activity_log, students, turns, pc, mode,
              session_id, caller_session_id, message, messages, response_message,
              function_result, stream, full_response, result, events, calls,
              invoked, failure, saved, printed, db0, history0, service>>

guardVars == <<g_message, g_verdict>>

\* the state of the document tools of tools_new.py
toolVars == <<student_docs, activity_docs, tasks, tool_ops>>

\* the state of the HTTP endpoints of main.py and of the tools they use
apiVars == <<ev_pending, ev_forwarded, ev_pc, client_connected, users, issued, http,
             toolVars>>

streamVars == <<ev_pending, ev_forwarded, ev_pc, client_connected>>

(***************************************************************************)
(* Bounds                                                                  *)
(***************************************************************************)
MaxTurns == 2      \* chat turns per behaviour
MaxMsgLen == 5     \* longest message given to the guardrail filter

(***************************************************************************)
(* Text                                                                    *)
(***************************************************************************)
\* Python's None where a text is expected (no text is a multi-letter symbol).
NoneText == <<"None">>

\* str.lower() on one character.
LowerChar(c) ==
    CASE c = "A" -> "a" [] c = "B" -> "b" [] c = "C" -> "c" [] c = "D" -> "d"
      [] c = "E" -> "e" [] c = "G" -> "g" [] c = "H" -> "h" [] c = "I" -> "i"
      [] c = "K" -> "k" [] c = "L" -> "l" [] c = "M" -> "m" [] c = "N" -> "n"
      [] c = "O" -> "o" [] c = "P" -> "p" [] c = "R" -> "r" [] c = "S" -> "s"
      [] c = "T" -> "t" [] c = "U" -> "u" [] c = "W" -> "w"
      [] OTHER -> c

\* str.lower()
Lower(s) == [i \in 1..Len(s) |-> LowerChar(s[i])]

\* Python's `word in text` for strings: word occurs at some offset of text.
Contains(text, word) ==
    \E i \in 0..(Len(text) - Len(word)) :
        \A j \in 1..Len(word) : text[i + j] = word[j]

BLOCKED_KEYWORDS ==
    << <<"h","a","c","k">>,
       <<"b","o","m","b">>,
       <<"k","i","l","l">>,
       <<"t","e","r","r","o","r","i","s","t">>,
       <<"s","u","i","c","i","d","e">>,
       <<"m","u","r","d","e","r">>,
       <<"d","r","u","g","s">>,
       <<"w","e","a","p","o","n">>,
       <<"r","a","p","e">>,
       <<"a","b","u","s","e">>,
       <<"n","u","d","e">> >>

\* The for loop of check_guardrails from keyword k on: the first keyword found
\* in the lowercased message returns False; falling off the list returns True.
RECURSIVE GuardrailLoop(_, _)
GuardrailLoop(msg, k) ==
    IF k > Len(BLOCKED_KEYWORDS) THEN TRUE
    ELSE IF Contains(Lower(msg), BLOCKED_KEYWORDS[k]) THEN FALSE
    ELSE GuardrailLoop(msg, k + 1)

\* A variant of check_guardrails that forgets to lowercase the message.
check_guardrails_cased(msg) ==
    \A k \in 1..Len(BLOCKED_KEYWORDS) : ~Contains(msg, BLOCKED_KEYWORDS[k])

check_guardrails(msg) == GuardrailLoop(msg, 1)


\* string concatenation of a list of texts, left to right ("".join / +=)
RECURSIVE Concat(_)
Concat(parts) ==
    IF parts = <<>> THEN <<>> ELSE Head(parts) \o Concat(Tail(parts))

\* every way of cutting a text into consecutive non-empty pieces
RECURSIVE Splits(_)
Splits(t) ==
    IF t = <<>> THEN {<<>>}
    ELSE UNION { { <<SubSeq(t, 1, k)>> \o rest :
                     rest \in Splits(SubSeq(t, k + 1, Len(t))) } :
                 k \in 1..Len(t) }

(***************************************************************************)
(* Inputs of a turn                                                        *)
(***************************************************************************)
\* user messages: a harmless one and one holding a denylisted word in mixed case
UserMessages == { <<"h","i">>, <<"a"," ","B","o","m","B">> }

\* session ids a caller passes; "" stands for a missing one (falsy like None)
CallerSessions == {"", "s1"}

\* the system preambles of chat and chat_stream (they differ in the last paragraph)
SystemPrompt(m) == IF m = "chat" THEN <<"preamble_chat">> ELSE <<"preamble_stream">>

NoCall == [name |-> "", arguments |-> ""]

Msg(role, content) ==
    [role |-> role, content |-> content, name |-> "", function_call |-> NoCall]

(***************************************************************************)
(* The tool catalogue                                                      *)
(***************************************************************************)
\* names of self.function_schemas, in order
function_schemas ==
    << "add_student", "get_student", "update_student", "delete_student",
       "list_students", "get_total_students", "get_students_by_department",
       "get_recent_onboarded_students", "get_active_students_last_7_days",
       "get_cafeteria_timings", "get_library_hours", "get_event_schedule",
       "send_email" >>

RegisteredNames == { function_schemas[i] : i \in 1..Len(function_schemas) }

\* attributes hasattr() finds on the CampusTools instance
ToolAttributes ==
    RegisteredNames \cup {"_log_activity", "client", "__init__", "__class__"}

\* the function calls the reasoning service selects in this model:
\* a registered synchronous tool with fitting, unfitting and unparsable
\* arguments, a registered coroutine tool, a private helper that is an
\* attribute of the tools object but no registered tool, and a name that is no
\* attribute at all
SelectedCalls ==
    { [name |-> "get_library_hours", arguments |-> "{}"],
      [name |-> "get_library_hours", arguments |-> "{\"student_id\": \"S1\"}"],
      [name |-> "get_library_hours", arguments |-> "{\"student_id\": "],
      [name |-> "get_student", arguments |-> "{\"student_id\": \"S1\"}"],
      [name |-> "_log_activity",
       arguments |-> "{\"student_id\": \"S1\", \"activity_type\": \"note\", \"description\": \"d\"}"],
      [name |-> "drop_students", arguments |-> "{}"],
      [name |-> "update_student",
       arguments |-> "{\"id\": \"S9\", \"field\": \"name\", \"new_value\": \"n1\"}"],
      [name |-> "update_student",
       arguments |-> "{\"id\": \"S1\", \"field\": \"name\", \"new_value\": \"n1\"}"] }

\* json.loads on those strings: the parsed object, or a JSONDecodeError
JsonLoads(raw) ==
    CASE raw = "{}" ->
           [ok |-> TRUE, keys |-> {}, student_id |-> "",
            id |-> "", field |-> "", new_value |-> ""]
      [] raw = "{\"student_id\": \"S1\"}" ->
           [ok |-> TRUE, keys |-> {"student_id"}, student_id |-> "S1",
            id |-> "", field |-> "", new_value |-> ""]
      [] raw = "{\"student_id\": \"S1\", \"activity_type\": \"note\", \"description\": \"d\"}" ->
           [ok |-> TRUE, keys |-> {"student_id", "activity_type", "description"},
            student_id |-> "S1", id |-> "", field |-> "", new_value |-> ""]
      [] raw = "{\"id\": \"S9\", \"field\": \"name\", \"new_value\": \"n1\"}" ->
           [ok |-> TRUE, keys |-> {"id", "field", "new_value"}, student_id |-> "",
            id |-> "S9", field |-> "name", new_value |-> "n1"]
      [] raw = "{\"id\": \"S1\", \"field\": \"name\", \"new_value\": \"n1\"}" ->
           [ok |-> TRUE, keys |-> {"id", "field", "new_value"}, student_id |-> "",
            id |-> "S1", field |-> "name", new_value |-> "n1"]
      [] OTHER ->
           [ok |-> FALSE, keys |-> {}, student_id |-> "",
            id |-> "", field |-> "", new_value |-> ""]

\* keyword parameters of the methods (all without default)
Parameters(name) ==
    CASE name = "get_library_hours" -> {}
      [] name = "get_student" -> {"student_id"}
      [] name = "_log_activity" -> {"student_id", "activity_type", "description"}
      [] name = "update_student" -> {"id", "field", "new_value"}
      [] OTHER -> {}

\* values _execute_function returns
ResultDict(success, msg) == [kind |-> "dict", success |-> success, message |-> msg]
ResultNone == [kind |-> "none", success |-> "", message |-> <<>>]
ResultCoroutine == [kind |-> "coroutine", success |-> "", message |-> <<>>]

NotFoundResult(name) == ResultDict("false", <<"Function", name, "not found">>)
ErrorResult(name) == ResultDict("false", <<"Error executing", name>>)

\* a row of the students table
StudentRow(name, department, email) ==
    [name |-> name, department |-> department, email |-> email]

\* setattr(student, field, new_value)
SetField(row, field, new_value) == [row EXCEPT ![field] = new_value]

\* the fields update_student accepts
valid_fields == {"name", "department", "email"}

\* An update_student that inserts a row for an id it does not find.
update_student_upsert(st, id, field, new_value) ==
    IF id \notin DOMAIN st
    THEN { [result |-> ResultDict("true", <<"Student ", field, " updated successfully">>),
            raised |-> FALSE, log |-> <<>>,
            students |-> [i \in (DOMAIN st) \cup {id} |->
                            IF i = id
                            THEN SetField(StudentRow("", "", ""), field, new_value)
                            ELSE st[i]]] }
    ELSE { [result |-> ResultNone, raised |-> TRUE, log |-> <<>>, students |-> st] }

\* CampusTools.update_student(id, field, new_value) on the students table st:
\* every [result, raised, log, students] it can end with.
update_student(st, id, field, new_value) ==
    LET failed == ResultDict("false", <<"Error updating student">>)
        updated == [st EXCEPT ![id] = SetField(st[id], field, new_value)]
    IN  { \* the query or the commit raised and so did the rollback of the handler
          [result |-> ResultNone, raised |-> TRUE, log |-> <<>>, students |-> st],
          \* the query or the commit raised, rolled back
          [result |-> failed, raised |-> FALSE, log |-> <<>>, students |-> st] }
        \cup
        IF id \notin DOMAIN st
        THEN { [result |-> ResultDict("false", <<"Student with ID ", id, " not found">>),
                raised |-> FALSE, log |-> <<>>, students |-> st] }
        ELSE IF field \notin valid_fields
        THEN { [result |-> ResultDict("false", <<"Invalid field">>),
                raised |-> FALSE, log |-> <<>>, students |-> st] }
        ELSE IF field = "email"
                /\ \E o \in DOMAIN st : o # id /\ st[o].email = new_value
        THEN { [result |-> ResultDict("false", <<"Email ", new_value, " is already in use">>),
                raised |-> FALSE, log |-> <<>>, students |-> st] }
        ELSE { \* committed, activity logged
               [result |-> ResultDict("true", <<"Student ", field, " updated successfully">>),
                raised |-> FALSE,
                log |-> << [student_id |-> id, activity_type |-> "student_updated"] >>,
                students |-> updated],
               \* committed, _log_activity raised: the handler answers an error
               [result |-> failed, raised |-> FALSE, log |-> <<>>,
                students |-> updated],
               \* committed, _log_activity raised and so did the rollback
               [result |-> ResultNone, raised |-> TRUE, log |-> <<>>,
                students |-> updated] }

\* What the body of a tool method can do once entered, as
\* [result, raised, log, students]: the value returned, whether it raised
\* instead, the activity rows it committed and the students table it leaves.
MethodOutcomes(name, args) ==
    CASE name = "get_library_hours" ->
           { [result |-> ResultDict("true", <<"library_hours">>), raised |-> FALSE,
              log |-> <<>>, students |-> students],
             [result |-> ResultNone, raised |-> TRUE, log |-> <<>>,
              students |-> students] }
      [] name = "get_student" ->
           \* async def: the call only builds a coroutine object
           { [result |-> ResultCoroutine, raised |-> FALSE, log |-> <<>>,
              students |-> students] }
      [] name = "_log_activity" ->
           { \* row added and committed
             [result |-> ResultNone, raised |-> FALSE,
              log |-> << [student_id |-> args.student_id, activity_type |-> "note"] >>,
              students |-> students],
             \* commit failed, rolled back
             [result |-> ResultNone, raised |-> FALSE, log |-> <<>>,
              students |-> students],
             \* the rollback in the handler raised as well
             [result |-> ResultNone, raised |-> TRUE, log |-> <<>>,
              students |-> students] }
      [] name = "update_student" ->
           update_student(students, args.id, args.field, args.new_value)
      [] OTHER -> { [result |-> ResultNone, raised |-> TRUE, log |-> <<>>,
                     students |-> students] }

\* hasattr(self.tools, function_name)
HasAttr(name) == name \in ToolAttributes

\* A _execute_function without its try/except: what the method raises leaves
\* the function.
ExecuteFunctionUncaught(name, args) ==
    IF HasAttr(name)
    THEN IF args.keys # Parameters(name)
         THEN { [result |-> ResultNone, entered |-> FALSE, raised |-> TRUE,
                 escaped |-> TRUE, log |-> <<>>, students |-> students] }
         ELSE { [result |-> o.result, entered |-> TRUE, raised |-> o.raised,
                 escaped |-> o.raised, log |-> o.log, students |-> o.students] :
                o \in MethodOutcomes(name, args) }
    ELSE { [result |-> NotFoundResult(name), entered |-> FALSE, raised |-> FALSE,
            escaped |-> FALSE, log |-> <<>>, students |-> students] }

\* _execute_function: every outcome of the call, as
\*   result   the value returned
\*   entered  the body of the resolved method was run
\*   raised   calling the resolved method raised (binding the keyword
\*            arguments, or inside the body)
\*   escaped  the exception left _execute_function (never: it is caught)
\*   log      the activity rows the method committed
ExecuteFunction(name, args) ==
    IF HasAttr(name)
    THEN IF args.keys # Parameters(name)
         THEN \* TypeError binding the keyword arguments
              { [result |-> ErrorResult(name), entered |-> FALSE, raised |-> TRUE,
                 escaped |-> FALSE, log |-> <<>>, students |-> students] }
         ELSE { [result |-> IF o.raised THEN ErrorResult(name) ELSE o.result,
                 entered |-> TRUE, raised |-> o.raised, escaped |-> FALSE,
                 log |-> o.log, students |-> o.students] :
                o \in MethodOutcomes(name, args) }
    ELSE { [result |-> NotFoundResult(name), entered |-> FALSE, raised |-> FALSE,
            escaped |-> FALSE, log |-> <<>>, students |-> students] }

\* json.dumps of a function result: the text, or a TypeError for an object
\* that is not serialisable
JsonDumpsOk(r) == r.kind # "coroutine"

JsonDumps(r) ==
    IF r.kind = "none" THEN <<"null">>
    ELSE <<"{", "\"success\": ", r.success, ", \"message\": ">> \o r.message \o <<"}">>


(***************************************************************************)
(* The conversation store and the agent's cache                            *)
(***************************************************************************)
\* Conversation.timestamp has a class-level default, datetime.utcnow()
\* evaluated once when the class is defined: every row gets the same value.
utcnow_at_import == 0

HistoryLimit == 10    \* .limit(10) of the history query
MemoryLimit == 20     \* messages kept per session in conversation_memory

Conversation(sid, msg, resp) ==
    [session_id |-> sid, message |-> msg, response |-> resp,
     timestamp |-> utcnow_at_import]

\* order_by(timestamp).limit(k) over a bag of rows, given as its distinct
\* rows and the number of copies of each: every sequence of at most k rows
\* that is ascending in timestamp. Rows with the same timestamp come in any
\* order.
RECURSIVE AscendingOrders(_, _, _)
AscendingOrders(values, count, k) ==
    LET left == { v \in values : count[v] > 0 }
        first == { v \in left : \A w \in left : v.timestamp <= w.timestamp }
    IN  IF k = 0 \/ left = {}
        THEN { <<>> }
        ELSE UNION { { <<v>> \o t :
                        t \in AscendingOrders(values, [count EXCEPT ![v] = @ - 1],
                                              k - 1) } : v \in first }

\* filter(session_id == sid).order_by(timestamp).limit(10).all(): the rows of
\* the session in any order that is ascending in timestamp, cut to ten.
QueryConversations(sid) ==
    LET rows == SelectSeq(db, LAMBDA r : r.session_id = sid)
        values == { rows[i] : i \in 1..Len(rows) }
        count == [v \in values |-> Cardinality({ i \in 1..Len(rows) : rows[i] = v })]
    IN  AscendingOrders(values, count, HistoryLimit)

\* the user/assistant message pair of each conversation row, in row order
HistoryOf(conversations) ==
    [i \in 1..(2 * Len(conversations)) |->
        IF i % 2 = 1
        THEN Msg("user", conversations[(i + 1) \div 2].message)
        ELSE Msg("assistant", conversations[i \div 2].response)]

EmptyMemory == [s \in {} |-> <<>>]

Store(memory, sid, history) ==
    [s \in (DOMAIN memory) \cup {sid} |-> IF s = sid THEN history ELSE memory[s]]

\* _get_conversation_history on an agent whose cache is memory: every
\* [history, memory] it can end with
GetConversationHistory(memory, sid) ==
    IF sid \notin DOMAIN memory
    THEN { [history |-> HistoryOf(c), memory |-> Store(memory, sid, HistoryOf(c))] :
           c \in QueryConversations(sid) }
    ELSE { [history |-> memory[sid], memory |-> memory] }

\* A trim of the cache that keeps the oldest messages: list[:MemoryLimit]
LastMessagesOldest(list) ==
    IF Len(list) > MemoryLimit
    THEN SubSeq(list, 1, MemoryLimit)
    ELSE list

\* list[-MemoryLimit:]
LastMessages(list) ==
    IF Len(list) > MemoryLimit
    THEN SubSeq(list, Len(list) - MemoryLimit + 1, Len(list))
    ELSE list

\* A _save_conversation that commits without having added the row.
SaveConversationNoAdd(sid, msg, resp) ==
    LET base == IF sid \in DOMAIN conversation_memory
                THEN conversation_memory[sid] ELSE <<>>
        grown == base \o <<Msg("user", msg), Msg("assistant", resp)>>
    IN  { [db |-> db,
           memory |-> Store(conversation_memory, sid, LastMessages(grown)),
           saved |-> "committed", printed |-> <<>>],
          [db |-> db, memory |-> conversation_memory, saved |-> "failed",
           printed |-> <<"Error saving conversation">>] }

\* A _save_conversation that updates the cache before it commits.
SaveConversationMemoryFirst(sid, msg, resp) ==
    LET base == IF sid \in DOMAIN conversation_memory
                THEN conversation_memory[sid] ELSE <<>>
        grown == base \o <<Msg("user", msg), Msg("assistant", resp)>>
    IN  { [db |-> Append(db, Conversation(sid, msg, resp)),
           memory |-> Store(conversation_memory, sid, LastMessages(grown)),
           saved |-> "committed", printed |-> <<>>],
          [db |-> db,
           memory |-> Store(conversation_memory, sid, LastMessages(grown)),
           saved |-> "failed", printed |-> <<"Error saving conversation">>] }

\* A _save_conversation that keeps one row per session: it replaces the rows
\* the session already has.
SaveConversationUpsert(sid, msg, resp) ==
    LET base == IF sid \in DOMAIN conversation_memory
                THEN conversation_memory[sid] ELSE <<>>
        grown == base \o <<Msg("user", msg), Msg("assistant", resp)>>
        others == SelectSeq(db, LAMBDA r : r.session_id # sid)
    IN  { [db |-> Append(others, Conversation(sid, msg, resp)),
           memory |-> Store(conversation_memory, sid, LastMessages(grown)),
           saved |-> "committed", printed |-> <<>>],
          [db |-> db, memory |-> conversation_memory, saved |-> "failed",
           printed |-> <<"Error saving conversation">>] }

\* _save_conversation: every [db, memory, saved, printed] it can end with. A commit
\* that raises is caught and printed; the row and the cache update are lost.
SaveConversation(sid, msg, resp) ==
    LET base == IF sid \in DOMAIN conversation_memory
                THEN conversation_memory[sid] ELSE <<>>
        grown == base \o <<Msg("user", msg), Msg("assistant", resp)>>
    IN  { [db |-> Append(db, Conversation(sid, msg, resp)),
           memory |-> Store(conversation_memory, sid, LastMessages(grown)),
           saved |-> "committed", printed |-> <<>>],
          [db |-> db, memory |-> conversation_memory, saved |-> "failed",
           printed |-> <<"Error saving conversation">>] }

(***************************************************************************)
(* The reasoning service                                                   *)
(***************************************************************************)
\* A request that offers the tool schemas on every call.
RequestWithSchemas(msgs, functions, streaming) ==
    [messages |-> msgs, functions |-> TRUE, stream |-> streaming]

Request(msgs, functions, streaming) ==
    [messages |-> msgs, functions |-> functions, stream |-> streaming]

\* what the reply text of a deterministic service depends on in this model:
\* the system preamble and whether the tool schemas are offered
KindOf(request) ==
    [prompt |-> request.messages[1].content, functions |-> request.functions]

Kinds == [prompt : {SystemPrompt("chat"), SystemPrompt("stream")}, functions : BOOLEAN]

\* The reasoning services of this model, as the texts each may answer a kind
\* of request with. Both are deterministic: one answers every request with the
\* same text, the other phrases its answer differently when it is offered the
\* tool schemas.
Services ==
    { [k \in Kinds |-> {<<"o","k">>}],
      [k \in Kinds |-> IF k.functions THEN {<<"o","k">>} ELSE {<<"n","o">>}] }

\* texts the service may answer a request with
ReplyTexts(request) == service[KindOf(request)]

\* responses to the first call: a direct reply, or a function call with or
\* without content next to it
FirstResponses(request) ==
    { [content |-> t, function_call |-> NoCall] : t \in ReplyTexts(request) }
    \cup
    { [content |-> NoneText, function_call |-> c] : c \in SelectedCalls }
    \cup
    { [content |-> t, function_call |-> c] :
        t \in ReplyTexts(request),
        c \in {[name |-> "get_library_hours", arguments |-> "{}"]} }

\* the chunks of a streamed reply: the text cut into pieces, and the closing
\* chunk, which has no content
Chunkings(t) == { pieces \o <<NoneText>> : pieces \in Splits(t) }

(***************************************************************************)
(* chat and chat_stream                                                    *)
(***************************************************************************)
uuid4 == ToString(turns + 1)

\* str(e) of the exception raised at the given place
ErrorMessage(where) == <<"I apologize, but I encountered an error: ", where>>

NoResponse == [content |-> NoneText, function_call |-> NoCall]

\* A content event that carries the whole text received so far.
ContentEventCumulative(content, sid) ==
    [content |-> full_response \o content, error |-> FALSE, done |-> FALSE,
     session_id |-> sid]

ContentEvent(content, sid) ==
    [content |-> content, error |-> FALSE, done |-> FALSE, session_id |-> sid]
ErrorEvent(content, sid) ==
    [content |-> content, error |-> TRUE, done |-> FALSE, session_id |-> sid]
\* An end signal that does not name the session.
DoneEventAnonymous(sid) ==
    [content |-> NoneText, error |-> FALSE, done |-> TRUE, session_id |-> ""]

DoneEvent(sid) ==
    [content |-> NoneText, error |-> FALSE, done |-> TRUE, session_id |-> sid]

TypeOK ==
    /\ pc \in {"idle", "reason1", "tool", "reason2", "streaming", "save",
               "error", "error_done", "done"}
    /\ mode \in {"chat", "stream"}
    /\ turns \in 0..(MaxTurns + 1)

\* the students table the service starts with
InitialStudents == [i \in {"S1"} |-> StudentRow("n0", "d0", "e0")]

\* get_password_hash: the bcrypt hash of a password
get_password_hash(password) == <<"bcrypt", password>>

\* the users table the service starts with: an admin and a staff member
InitialUsers ==
    [e \in {"a@x", "s@x"} |->
        IF e = "a@x"
        THEN [hashed_password |-> get_password_hash("pa"), role |-> "admin"]
        ELSE [hashed_password |-> get_password_hash("ps"), role |-> "staff"]]

\* the Authorization header of a request: none, a string that is no token of
\* this service, or an access token
NoBearer == [kind |-> "none", sub |-> "", role |-> ""]
GarbageBearer == [kind |-> "garbage", sub |-> "", role |-> ""]

NoRequest ==
    [method |-> "", path |-> "", bearer |-> NoBearer, id |-> "", email |-> "",
     password |-> "", fields |-> {}, status |-> 0, token |-> NoBearer,
     students_before |-> InitialStudents, users_before |-> InitialUsers]

\* a document of the students collection
StudentDoc(student_id, name, department, email) ==
    [student_id |-> student_id, name |-> name, department |-> department,
     email |-> email]

\* what find_one returns when no document matches
NoDoc == StudentDoc("", "", "", "")

InitialDocs == << StudentDoc("S1", "n0", "d0", "e0") >>

\* the callers of tools_new.CampusTools
Tasks == {1, 2}

IdleTask ==
    [op |-> "", pc |-> "idle", full |-> FALSE, student_id |-> "", email |-> "",
     field |-> "", value |-> "", activity_type |-> "", doc |-> NoDoc,
     outcome |-> "", docs_before |-> InitialDocs, log_before |-> <<>>]

\* no call of tools_new.CampusTools has been made
IdleTools ==
    /\ student_docs = InitialDocs
    /\ activity_docs = <<>>
    /\ tasks = [t \in Tasks |-> IdleTask]
    /\ tool_ops = 0

\* no request is being served by the HTTP endpoints
IdleStream ==
    /\ ev_pending = <<>>
    /\ ev_forwarded = <<>>
    /\ ev_pc = "idle"
    /\ client_connected = TRUE

IdleApi ==
    /\ IdleStream
    /\ IdleTools
    /\ users = InitialUsers
    /\ issued = {}
    /\ http = NoRequest

Init ==
    /\ IdleApi
    /\ db = <<>>
    /\ conversation_memory = EmptyMemory
    /\ activity_log = <<>>
    /\ students = InitialStudents
    /\ caller_session_id = ""
    /\ printed = <<>>
    /\ turns = 0
    /\ pc = "idle"
    /\ mode = "chat"
    /\ session_id = ""
    /\ message = <<>>
    /\ messages = <<>>
    /\ response_message = NoResponse
    /\ function_result = ResultNone
    /\ stream = <<>>
    /\ full_response = <<>>
    /\ result = <<>>
    /\ events = <<>>
    /\ calls = <<>>
    /\ invoked = <<>>
    /\ failure = ""
    /\ saved = ""
    /\ db0 = <<>>
    /\ history0 = <<>>
    /\ service \in Services
    /\ g_message = <<>>
    /\ g_verdict = "pending"

\* get_agent: the cache of the agent that serves the request. A new
\* CampusAgent starts with an empty cache; a kept one has the cache it built.
get_agent(new) == IF new THEN EmptyMemory ELSE conversation_memory

\* Lines 185-215 (chat) and 282-310 (chat_stream): default the session id,
\* read the history and build the message list. The history query may raise.
StartTurn(m, msg, sid, new) ==
    /\ pc \in {"idle", "done"}
    /\ turns < MaxTurns
    /\ turns' = turns + 1
    /\ mode' = m
    /\ message' = msg
    /\ caller_session_id' = sid
    /\ session_id' = (IF sid = "" THEN uuid4 ELSE sid)
    /\ db0' = db
    /\ response_message' = NoResponse
    /\ function_result' = ResultNone
    /\ stream' = <<>>
    /\ full_response' = <<>>
    /\ result' = <<>>
    /\ events' = <<>>
    /\ calls' = <<>>
    /\ invoked' = <<>>
    /\ saved' = ""
    /\ printed' = <<>>
    /\ \/ \E h \in GetConversationHistory(get_agent(new), session_id') :
             /\ conversation_memory' = h.memory
             /\ history0' = h.history
             /\ messages' = <<Msg("system", SystemPrompt(m))>> \o h.history
                              \o <<Msg("user", msg)>>
             /\ failure' = ""
             /\ pc' = "reason1"
       \/ /\ session_id' \notin DOMAIN get_agent(new)
          /\ conversation_memory' = get_agent(new)
          /\ failure' = "history query"
          /\ history0' = <<>>
          /\ messages' = <<>>
          /\ pc' = "error"
    /\ UNCHANGED <<db, activity_log, students, service, guardVars, apiVars>>

Chat(msg, sid, new) == StartTurn("chat", msg, sid, new)

ChatStream(msg, sid, new) == StartTurn("stream", msg, sid, new)

\* The except branch is entered with the place of the exception.
Raise(where) ==
    /\ failure' = where
    /\ pc' = "error"

\* A first reasoning call whose answer is taken as a direct reply whenever it
\* has content.
FirstReasoningCallContentFirst ==
    /\ pc = "reason1"
    /\ LET request == Request(messages, TRUE, FALSE)
       IN  /\ calls' = Append(calls, request)
           /\ \/ /\ Raise("first reasoning call")
                 /\ UNCHANGED <<response_message, full_response>>
              \/ \E r \in FirstResponses(request) :
                    /\ response_message' = r
                    /\ failure' = failure
                    /\ IF r.function_call # NoCall /\ r.content = NoneText
                       THEN pc' = "tool" /\ UNCHANGED full_response
                       ELSE IF mode = "chat"
                            THEN pc' = "save" /\ full_response' = r.content
                            ELSE pc' = "reason2" /\ UNCHANGED full_response
    /\ UNCHANGED <<db, conversation_memory, activity_log, students, turns, mode, session_id, caller_session_id,
                   message, messages, function_result, stream, result, events,
                   invoked, saved, printed, db0, history0, service, guardVars, apiVars>>

\* Lines 217-230 / 312-325: the first reasoning call, with the tool schemas.
\* It raises, or answers; the answer decides the branch.
FirstReasoningCall ==
    /\ pc = "reason1"
    /\ LET request == Request(messages, TRUE, FALSE)
       IN  /\ calls' = Append(calls, request)
           /\ \/ /\ Raise("first reasoning call")
                 /\ UNCHANGED <<response_message, full_response>>
              \/ \E r \in FirstResponses(request) :
                    /\ response_message' = r
                    /\ failure' = failure
                    /\ IF r.function_call # NoCall
                       THEN pc' = "tool" /\ UNCHANGED full_response
                       ELSE IF mode = "chat"
                            THEN pc' = "save" /\ full_response' = r.content
                            ELSE pc' = "reason2" /\ UNCHANGED full_response
    /\ UNCHANGED <<db, conversation_memory, activity_log, students, turns, mode, session_id, caller_session_id,
                   message, messages, function_result, stream, result, events,
                   invoked, saved, printed, db0, history0, service, guardVars, apiVars>>

FunctionCallMessage(call) ==
    [role |-> "assistant", content |-> NoneText, name |-> "", function_call |-> call]

FunctionMessage(name, content) ==
    [role |-> "function", content |-> content, name |-> name, function_call |-> NoCall]

\* Lines 231-250 / 326-345: parse the arguments, execute the function, append
\* the function-call message and the function message. json.loads and
\* json.dumps raise into the turn's except branch.
ExecuteTool ==
    /\ pc = "tool"
    /\ LET function_name == response_message.function_call.name
           raw == response_message.function_call.arguments
           function_args == JsonLoads(raw)
       IN  IF ~function_args.ok
           THEN /\ Raise("json.loads")
                /\ UNCHANGED <<function_result, messages, invoked, activity_log, students>>
           ELSE \E x \in ExecuteFunction(function_name, function_args) :
                   /\ invoked' = IF HasAttr(function_name)
                                 THEN Append(invoked, [name |-> function_name,
                                                       entered |-> x.entered,
                                                       raised |-> x.raised])
                                 ELSE invoked
                   /\ activity_log' = activity_log \o x.log
                   /\ students' = x.students
                   /\ IF x.escaped
                      THEN /\ Raise("tool")
                           /\ UNCHANGED <<function_result, messages>>
                      ELSE /\ function_result' = x.result
                           /\ IF JsonDumpsOk(x.result)
                              THEN /\ messages' = messages \o
                                      << FunctionCallMessage(response_message.function_call),
                                         FunctionMessage(function_name, JsonDumps(x.result)) >>
                                   /\ pc' = "reason2"
                                   /\ failure' = failure
                              ELSE /\ messages' = Append(messages,
                                      FunctionCallMessage(response_message.function_call))
                                   /\ Raise("json.dumps")
    /\ UNCHANGED <<db, conversation_memory, turns, mode, session_id, caller_session_id, message,
                   response_message, stream, full_response, result, events, calls,
                   saved, printed, db0, history0, service, guardVars, apiVars>>

\* Lines 252-260 of chat: the second reasoning call, without tool schemas.
SecondReasoningCall ==
    /\ pc = "reason2"
    /\ mode = "chat"
    /\ LET request == Request(messages, FALSE, FALSE)
       IN  /\ calls' = Append(calls, request)
           /\ \/ /\ Raise("second reasoning call")
                 /\ UNCHANGED full_response
              \/ \E t \in ReplyTexts(request) :
                    /\ full_response' = t
                    /\ pc' = "save"
                    /\ failure' = failure
    /\ UNCHANGED <<db, conversation_memory, activity_log, students, turns, mode, session_id, caller_session_id,
                   message, messages, response_message, function_result, stream,
                   result, events, invoked, saved, printed, db0, history0, service, guardVars, apiVars>>

\* Lines 264-271 of chat: save the conversation and return the response.
SaveAndReturn ==
    /\ pc = "save"
    /\ mode = "chat"
    /\ \E s \in SaveConversation(session_id, message, full_response) :
          /\ db' = s.db
          /\ conversation_memory' = s.memory
          /\ saved' = s.saved
          /\ printed' = printed \o s.printed
    /\ result' = << [response |-> full_response, session_id |-> session_id,
                     success |-> TRUE, error |-> ""] >>
    /\ pc' = "done"
    /\ UNCHANGED <<activity_log, students, turns, mode, session_id, caller_session_id, message, messages,
                   response_message, function_result, stream, full_response, events,
                   calls, invoked, failure, db0, history0, service, guardVars, apiVars>>

\* An except branch of chat that saves the error message as the response.
ChatErrorSaving ==
    /\ pc = "error"
    /\ mode = "chat"
    /\ \E s \in SaveConversation(session_id, message, ErrorMessage(failure)) :
          /\ db' = s.db
          /\ conversation_memory' = s.memory
          /\ saved' = s.saved
          /\ printed' = printed \o s.printed
    /\ result' = << [response |-> ErrorMessage(failure), session_id |-> session_id,
                     success |-> FALSE, error |-> failure] >>
    /\ pc' = "done"
    /\ UNCHANGED <<activity_log, students, turns, mode, session_id, caller_session_id, message, messages,
                   response_message, function_result, stream, full_response, events,
                   calls, invoked, failure, db0, history0, service, guardVars, apiVars>>

\* Lines 273-280 of chat: the except branch returns the error dict.
ChatError ==
    /\ pc = "error"
    /\ mode = "chat"
    /\ result' = << [response |-> ErrorMessage(failure), session_id |-> session_id,
                     success |-> FALSE, error |-> failure] >>
    /\ pc' = "done"
    /\ UNCHANGED <<db, conversation_memory, activity_log, students, turns, mode, session_id, caller_session_id,
                   message, messages, response_message, function_result, stream,
                   full_response, events, calls, invoked, failure, saved, printed, db0,
                   history0, service, guardVars, apiVars>>

\* Lines 347-356 and 367-376 of chat_stream: open the streamed completion,
\* without tool schemas, after a function call as well as for a direct reply.
OpenStream ==
    /\ pc = "reason2"
    /\ mode = "stream"
    /\ LET request == Request(messages, FALSE, TRUE)
       IN  /\ calls' = Append(calls, request)
           /\ \/ /\ Raise("streamed reasoning call")
                 /\ UNCHANGED <<stream, full_response>>
              \/ \E t \in ReplyTexts(request) : \E chunks \in Chunkings(t) :
                    /\ stream' = chunks
                    /\ full_response' = <<>>
                    /\ pc' = "streaming"
                    /\ failure' = failure
    /\ UNCHANGED <<db, conversation_memory, activity_log, students, turns, mode, session_id, caller_session_id,
                   message, messages, response_message, function_result, result,
                   events, invoked, saved, printed, db0, history0, service, guardVars, apiVars>>

\* Lines 357-361 and 377-381: one round of the for loop over the stream. The
\* read raises, or gives the next chunk; a chunk with content is added to
\* full_response and yielded.
ReadChunk ==
    /\ pc = "streaming"
    /\ stream # <<>>
    /\ \/ /\ Raise("stream read")
          /\ UNCHANGED <<stream, full_response, events>>
       \/ /\ stream' = Tail(stream)
          /\ IF Head(stream) # NoneText
             THEN /\ full_response' = full_response \o Head(stream)
                  /\ events' = Append(events, ContentEvent(Head(stream), session_id))
             ELSE UNCHANGED <<full_response, events>>
          /\ UNCHANGED <<pc, failure>>
    /\ UNCHANGED <<db, conversation_memory, activity_log, students, turns, mode, session_id, caller_session_id,
                   message, messages, response_message, function_result, result,
                   calls, invoked, saved, printed, db0, history0, service, guardVars, apiVars>>

\* Lines 363-364 / 383-384 and 386-387: the stream is exhausted; save the
\* conversation, then yield the end signal.
FinishStream ==
    /\ pc = "streaming"
    /\ stream = <<>>
    /\ \E s \in SaveConversation(session_id, message, full_response) :
          /\ db' = s.db
          /\ conversation_memory' = s.memory
          /\ saved' = s.saved
          /\ printed' = printed \o s.printed
    /\ events' = Append(events, DoneEvent(session_id))
    /\ pc' = "done"
    /\ UNCHANGED <<activity_log, students, turns, mode, session_id, caller_session_id, message, messages,
                   response_message, function_result, stream, full_response, result,
                   calls, invoked, failure, db0, history0, service, guardVars, apiVars>>

\* Lines 389-391 of chat_stream: the except branch yields the error message.
StreamError ==
    /\ pc = "error"
    /\ mode = "stream"
    /\ events' = Append(events, ErrorEvent(ErrorMessage(failure), session_id))
    /\ pc' = "error_done"
    /\ UNCHANGED <<db, conversation_memory, activity_log, students, turns, mode, session_id, caller_session_id,
                   message, messages, response_message, function_result, stream,
                   full_response, result, calls, invoked, failure, saved, printed, db0,
                   history0, service, guardVars, apiVars>>

\* An except branch of chat_stream that ends without the end signal.
StreamErrorDoneMissing ==
    /\ pc = "error_done"
    /\ pc' = "done"
    /\ UNCHANGED <<db, conversation_memory, activity_log, students, turns, mode, session_id, caller_session_id,
                   message, messages, response_message, function_result, stream,
                   full_response, result, events, calls, invoked, failure, saved, printed,
                   db0, history0, service, guardVars, apiVars>>

\* Line 392 of chat_stream: the except branch yields the end signal.
StreamErrorDone ==
    /\ pc = "error_done"
    /\ events' = Append(events, DoneEvent(session_id))
    /\ pc' = "done"
    /\ UNCHANGED <<db, conversation_memory, activity_log, students, turns, mode, session_id, caller_session_id,
                   message, messages, response_message, function_result, stream,
                   full_response, result, calls, invoked, failure, saved, printed, db0,
                   history0, service, guardVars, apiVars>>

Next ==
    \/ \E msg \in UserMessages, sid \in CallerSessions, new \in BOOLEAN :
          Chat(msg, sid, new)
    \/ \E msg \in UserMessages, sid \in CallerSessions, new \in BOOLEAN :
          ChatStream(msg, sid, new)
    \/ FirstReasoningCall
    \/ ExecuteTool
    \/ SecondReasoningCall
    \/ SaveAndReturn
    \/ ChatError
    \/ OpenStream
    \/ ReadChunk
    \/ FinishStream
    \/ StreamError
    \/ StreamErrorDone

Spec == Init /\ [][Next]_vars


(***************************************************************************)
(* The guardrail filter on its own: check_guardrails applied to every      *)
(* message over a small alphabet.                                          *)
(***************************************************************************)
\* letters of "bomb" and "kill", and a capital
GuardAlphabet == {"b", "o", "m", "k", "i", "l", "B"}

GuardMessages == UNION { [1..n -> GuardAlphabet] : n \in 0..MaxMsgLen }

\* no chat turn has run
IdleAgent ==
    /\ db = <<>> /\ conversation_memory = EmptyMemory /\ activity_log = <<>>
    /\ students = InitialStudents /\ caller_session_id = "" /\ printed = <<>>
    /\ turns = 0 /\ pc = "idle" /\ mode = "chat" /\ session_id = ""
    /\ message = <<>> /\ messages = <<>> /\ response_message = NoResponse
    /\ function_result = ResultNone /\ stream = <<>> /\ full_response = <<>>
    /\ result = <<>> /\ events = <<>> /\ calls = <<>> /\ invoked = <<>>
    /\ failure = "" /\ saved = "" /\ db0 = <<>> /\ history0 = <<>>
    /\ service = [k \in Kinds |-> {<<"o","k">>}]

InitGuard ==
    /\ IdleAgent
    /\ IdleApi
    /\ g_message \in GuardMessages
    /\ g_verdict = "pending"

CheckGuardrails ==
    /\ g_verdict = "pending"
    /\ g_verdict' = (IF check_guardrails(g_message) THEN "True" ELSE "False")
    /\ UNCHANGED <<g_message, turnVars, apiVars>>

NextGuard == CheckGuardrails

SpecGuard == InitGuard /\ [][NextGuard]_vars

(***************************************************************************)
(* GET /chat/stream of main.py: event_generator forwards the items of the  *)
(* agent's response generator to the client as server-sent events.         *)
(***************************************************************************)
MaxItems == 3      \* longest run of the response generator

\* what the response generator yields: a text token, or the final dict
Token == [dict |-> FALSE, data |-> "token"]
Final == [dict |-> TRUE, data |-> "session"]

\* the runs of agent.stream_response
StreamResponses == UNION { [1..n -> {Token, Final}] : n \in 0..MaxItems }

InitStream ==
    /\ IdleAgent
    /\ IdleTools
    /\ users = InitialUsers /\ issued = {} /\ http = NoRequest
    /\ g_message = <<>>
    /\ g_verdict = "pending"
    /\ ev_pending \in StreamResponses
    /\ ev_forwarded = <<>>
    /\ ev_pc = "next"
    /\ client_connected = TRUE

\* the client goes away; it does not come back on this connection
Disconnect ==
    /\ ev_pc \in {"next", "check", "emit", "retry"}
    /\ client_connected
    /\ client_connected' = FALSE
    /\ UNCHANGED <<ev_pending, ev_forwarded, ev_pc, turnVars, guardVars, users, issued, http, toolVars>>

\* `async for response in agent.stream_response(...)`: the next item, the end
\* of the run, or an exception of the generator, which the except branch of
\* lines 376-381 sends as an error event.
NextItem ==
    /\ ev_pc = "next"
    /\ \/ /\ ev_pending # <<>>
          /\ ev_pc' = "check"
          /\ UNCHANGED ev_forwarded
       \/ /\ ev_pending = <<>>
          /\ ev_pc' = "stopped"
          /\ UNCHANGED ev_forwarded
       \/ /\ ev_forwarded' = Append(ev_forwarded, [event |-> "error"])
          /\ ev_pc' = "stopped"
    /\ UNCHANGED <<ev_pending, client_connected, turnVars, guardVars, users, issued, http, toolVars>>

\* A disconnect check that goes on with the item whatever it finds.
CheckDisconnectedIgnored ==
    /\ ev_pc = "check"
    /\ ev_pc' = "emit"
    /\ UNCHANGED <<ev_pending, ev_forwarded, client_connected, turnVars, guardVars, users, issued, http, toolVars>>

\* Lines 355-356: `if await request.is_disconnected(): break`
CheckDisconnected ==
    /\ ev_pc = "check"
    /\ ev_pc' = (IF client_connected THEN "emit" ELSE "disconnected")
    /\ UNCHANGED <<ev_pending, ev_forwarded, client_connected, turnVars, guardVars, users, issued, http, toolVars>>

\* Lines 358-370: the item is sent as a done event (a dict) or as a message
\* event (a token).
Emit ==
    /\ ev_pc = "emit"
    /\ ev_forwarded' = Append(ev_forwarded,
           [event |-> IF Head(ev_pending).dict THEN "done" ELSE "message"])
    /\ ev_pending' = Tail(ev_pending)
    /\ ev_pc' = "retry"
    /\ UNCHANGED <<client_connected, turnVars, guardVars, users, issued, http, toolVars>>

\* Lines 372-375: the retry interval is sent after every item.
Retry ==
    /\ ev_pc = "retry"
    /\ ev_forwarded' = Append(ev_forwarded, [event |-> "retry"])
    /\ ev_pc' = "next"
    /\ UNCHANGED <<ev_pending, client_connected, turnVars, guardVars, users, issued, http, toolVars>>

NextStream ==
    \/ Disconnect
    \/ NextItem
    \/ CheckDisconnected
    \/ Emit
    \/ Retry

SpecStream == InitStream /\ [][NextStream]_vars

(***************************************************************************)
(* The REST API: /auth/token and /auth/register of auth/routes.py and the  *)
(* student endpoints of main.py. Each action is one request, from its      *)
(* dependencies to its response.                                           *)
(***************************************************************************)
\* security.get_user(db, email): the user row, or none
get_user(email) == IF email \in DOMAIN users THEN <<users[email]>> ELSE <<>>

\* security.verify_password(plain_password, hashed_password)
verify_password(plain_password, hashed_password) ==
    get_password_hash(plain_password) = hashed_password

\* security.create_access_token(data={"sub": email, "role": role})
create_access_token(email, role) == [kind |-> "jwt", sub |-> email, role |-> role]

\* the bearer is an access token this service signed, for a user it has
Authenticated(bearer) ==
    bearer.kind = "jwt" /\ bearer \in issued /\ bearer.sub \in DOMAIN users

\* Depends(get_current_active_user): the status it aborts the request with, 0
\* when it lets the request through
get_current_active_user(bearer) == IF Authenticated(bearer) THEN 0 ELSE 401

RoleRank(role) == CASE role = "admin" -> 3 [] role = "staff" -> 2 [] OTHER -> 1

\* Depends(check_role(required)): as get_current_active_user, and 403 for a
\* user whose role is below the required one
check_role(required, bearer) ==
    IF ~Authenticated(bearer) THEN 401
    ELSE IF RoleRank(bearer.role) < RoleRank(required) THEN 403
    ELSE 0

\* Depends(get_tools): get_tools returns get_campus_tools(db), an async def,
\* without awaiting it, so what the endpoint is given is a coroutine object.
get_tools == "coroutine"

\* The status of an endpoint body that calls tools.<method>(...) and hands on
\* what it gets. A coroutine object has no tool method: AttributeError, which
\* the handler for Exception answers with 500. On a CampusTools the call of
\* an async def method, not awaited, gives a coroutine object: it is truthy,
\* so delete_student answers 200, and it is no valid response model, so the
\* other endpoints answer 500. No method body runs in either case.
BodyStatus(tools, method) ==
    IF tools = "coroutine" THEN 500
    ELSE IF method = "delete_student" THEN 200
    ELSE 500

Req(method, path, bearer, id, email, password, fields) ==
    [method |-> method, path |-> path, bearer |-> bearer, id |-> id,
     email |-> email, password |-> password, fields |-> fields,
     status |-> 0, token |-> NoBearer,
     students_before |-> students, users_before |-> users]

\* what a request may carry as its bearer
Bearers == {NoBearer, GarbageBearer} \cup issued

Emails == {"a@x", "s@x", "n@x"}

\* the value a PUT body gives a field it supplies
UpdateValue(field) == "v1"
Passwords == {"pa", "ps", "pw"}
StudentIds == {"S1", "S9"}

restFrame == <<turnVars, guardVars, streamVars, toolVars>>

\* A login that does not verify the password.
login_without_verify(email, password) ==
    LET user == get_user(email)
        ok == user # <<>>
        token == create_access_token(email, user[1].role)
    IN  /\ http' = [Req("POST", "/auth/token", NoBearer, "", email, password, {})
                       EXCEPT !.status = IF ok THEN 200 ELSE 401,
                              !.token = IF ok THEN token ELSE NoBearer]
        /\ issued' = IF ok THEN issued \cup {token} ELSE issued
        /\ UNCHANGED <<users, restFrame>>

\* POST /auth/token
login_for_access_token(email, password) ==
    LET user == get_user(email)
        ok == user # <<>> /\ verify_password(password, user[1].hashed_password)
        token == create_access_token(email, user[1].role)
    IN  /\ http' = [Req("POST", "/auth/token", NoBearer, "", email, password, {})
                       EXCEPT !.status = IF ok THEN 200 ELSE 401,
                              !.token = IF ok THEN token ELSE NoBearer]
        /\ issued' = IF ok THEN issued \cup {token} ELSE issued
        /\ UNCHANGED <<users, restFrame>>

\* POST /auth/register: behind check_role(ADMIN). The body answers 400 for a
\* registered email; for a new one it reaches User(...), a name the module
\* does not import: NameError, answered with 500 before anything is stored.
register_user(bearer, email, password) ==
    LET dep == check_role("admin", bearer)
    IN  /\ http' = [Req("POST", "/auth/register", bearer, "", email, password, {})
                       EXCEPT !.status = IF dep # 0 THEN dep
                                         ELSE IF get_user(email) # <<>> THEN 400
                                         ELSE 500]
        /\ UNCHANGED <<users, issued, restFrame>>

\* A GET /students/ that does not depend on get_current_active_user.
list_students_open(bearer) ==
    /\ http' = [Req("GET", "/students/", bearer, "", "", "", {})
                   EXCEPT !.status = BodyStatus(get_tools, "list_students")]
    /\ UNCHANGED <<users, issued, restFrame>>

\* GET /students/: behind get_current_active_user
list_students(bearer) ==
    LET dep == get_current_active_user(bearer)
    IN  /\ http' = [Req("GET", "/students/", bearer, "", "", "", {})
                       EXCEPT !.status = IF dep # 0 THEN dep
                                         ELSE BodyStatus(get_tools, "list_students")]
        /\ UNCHANGED <<users, issued, restFrame>>

\* GET /students/{student_id}: behind get_current_active_user
get_student(bearer, student_id) ==
    LET dep == get_current_active_user(bearer)
    IN  /\ http' = [Req("GET", "/students/{student_id}", bearer, student_id, "", "", {})
                       EXCEPT !.status = IF dep # 0 THEN dep
                                         ELSE BodyStatus(get_tools, "get_student")]
        /\ UNCHANGED <<users, issued, restFrame>>

\* PUT /students/{student_id}: behind check_role(STAFF)
put_student(bearer, student_id, fields) ==
    LET dep == check_role("staff", bearer)
    IN  /\ http' = [Req("PUT", "/students/{student_id}", bearer, student_id, "", "", fields)
                       EXCEPT !.status = IF dep # 0 THEN dep
                                         ELSE BodyStatus(get_tools, "update_student")]
        /\ UNCHANGED <<users, issued, restFrame>>

\* DELETE /students/{student_id}: behind check_role(ADMIN)
delete_student(bearer, student_id) ==
    LET dep == check_role("admin", bearer)
    IN  /\ http' = [Req("DELETE", "/students/{student_id}", bearer, student_id, "", "", {})
                       EXCEPT !.status = IF dep # 0 THEN dep
                                         ELSE BodyStatus(get_tools, "delete_student")]
        /\ UNCHANGED <<users, issued, restFrame>>

InitRest ==
    /\ IdleAgent
    /\ IdleApi
    /\ g_message = <<>>
    /\ g_verdict = "pending"

NextRest ==
    \/ \E e \in Emails, p \in Passwords : login_for_access_token(e, p)
    \/ \E b \in Bearers, e \in Emails, p \in Passwords : register_user(b, e, p)
    \/ \E b \in Bearers : list_students(b)
    \/ \E b \in Bearers, i \in StudentIds : get_student(b, i)
    \/ \E b \in Bearers, i \in StudentIds, f \in SUBSET valid_fields : put_student(b, i, f)
    \/ \E b \in Bearers, i \in StudentIds : delete_student(b, i)

SpecRest == InitRest /\ [][NextRest]_vars

(***************************************************************************)
(* Notions the properties are stated with                                  *)
(***************************************************************************)
\* the message holds a denylisted keyword in some letter case: at some offset
\* every letter, lowercased, is the keyword's letter
Denylisted(msg) ==
    \E k \in 1..Len(BLOCKED_KEYWORDS) :
        LET word == BLOCKED_KEYWORDS[k]
        IN  \E i \in 0..(Len(msg) - Len(word)) :
               \A j \in 1..Len(word) : LowerChar(msg[i + j]) = word[j]

\* the persisted history of a session: the messages of all its rows
PersistedHistory(rows, sid) ==
    HistoryOf(SelectSeq(rows, LAMBDA r : r.session_id = sid))

\* the messages a turn added to the persisted history of its session
AppendedMessages ==
    LET before == PersistedHistory(db0, session_id)
        after == PersistedHistory(db, session_id)
    IN  SubSeq(after, Len(before) + 1, Len(after))

\* the turn has a function call in its first response
ToolTurn == response_message.function_call # NoCall

\* the turn got a first response and it is a direct reply
DirectTurn == Len(calls) >= 1 /\ response_message # NoResponse /\ ~ToolTurn

\* the text fragments chat_stream has sent, in order
ContentFragments ==
    LET ev == SelectSeq(events, LAMBDA e : ~e.done)
    IN  [i \in 1..Len(ev) |-> ev[i].content]

DoneEvents == SelectSeq(events, LAMBDA e : e.done)


(***************************************************************************)
(* Properties                                                              *)
(***************************************************************************)

\* C1: in every turn whose user message holds a denylisted keyword (in any
\* letter case) the reasoning service is never called, no tool attribute is
\* called, and the persisted and the cached history of the session stay as
\* they were when the turn started.
C1_BlockedTurnTouchesNothing ==
    (pc # "idle" /\ Denylisted(message)) =>
        /\ calls = <<>>
        /\ invoked = <<>>
        /\ db = db0
        /\ (session_id \in DOMAIN conversation_memory
               => conversation_memory[session_id] = history0)

\* C2: check_guardrails returns False exactly when the lowercased message
\* holds at least one entry of BLOCKED_KEYWORDS as a substring, and True
\* otherwise.
C2_GuardrailIffDenylisted ==
    g_verdict # "pending" =>
        /\ g_verdict \in {"True", "False"}
        /\ (g_verdict = "False") <=> Denylisted(g_message)

\* C2 witness: a message is refused for a keyword that it spells with a capital.
C2_Witness ==
    /\ g_verdict = "False"
    /\ g_message # Lower(g_message)
    /\ Len(g_message) = 5


\* C3: whenever the reasoning service selects a function name that is not in
\* function_schemas, no attribute of the tools object is called for it, the
\* tool result is a dict with success false, and the turn goes on to its
\* second reasoning call instead of ending in the except branch.
C3_UnregisteredNameNeverCalled ==
    (ToolTurn /\ pc # "tool"
       /\ response_message.function_call.name \notin RegisteredNames) =>
        /\ invoked = <<>>
        /\ function_result.kind = "dict"
        /\ function_result.success = "false"
        /\ failure \notin {"json.loads", "json.dumps", "tool"}

\* C4: whenever the function call's arguments are not valid JSON, the turn
\* ends with a failed tool result that differs from the unknown-function
\* result, and the persisted log of the session has a record of the attempt.
C4_MalformedArgumentsRecorded ==
    (pc = "done" /\ ToolTurn
       /\ ~JsonLoads(response_message.function_call.arguments).ok) =>
        /\ function_result.kind = "dict"
        /\ function_result.success = "false"
        /\ function_result # NotFoundResult(response_message.function_call.name)
        /\ Len(db) > Len(db0)

\* C5: whenever calling the resolved tool method raises (while binding the
\* arguments or inside the method), the tool step gives a dict with success
\* false and a message, the second reasoning call is made, and the turn ends
\* in the except branch only if that second call (or its stream) fails;
\* otherwise chat returns the final response with success true.
C5_ToolExceptionContained ==
    (ToolTurn /\ pc # "tool" /\ invoked # <<>> /\ invoked[1].raised) =>
        /\ function_result.kind = "dict"
        /\ function_result.success = "false"
        /\ function_result.message # <<>>
        /\ failure \in {"", "second reasoning call", "streamed reasoning call",
                        "stream read"}
        /\ (pc # "reason2" => Len(calls) = 2 /\ ~calls[2].functions)
        /\ (pc = "done" /\ mode = "chat" =>
               /\ Len(result) = 1
               /\ result[1].success <=> (failure = "")
               /\ failure = "" => result[1].response = full_response)

\* C5 witness: chat returned a successful final response after a tool method
\* was entered and raised.
C5_Witness ==
    /\ pc = "done" /\ mode = "chat" /\ ToolTurn
    /\ invoked # <<>> /\ invoked[1].raised /\ invoked[1].entered
    /\ result # <<>> /\ result[1].success

\* C6 as stated: a turn with a direct reply that ends without an error has
\* added exactly one assistant message to the persisted history of its session.
C6_DirectTurnAppendsOne ==
    (pc = "done" /\ DirectTurn /\ failure = "") =>
        Len(SelectSeq(AppendedMessages, LAMBDA m : m.role = "assistant")) = 1

\* C6 amended: a turn with a direct reply that ends without an error has
\* added exactly one conversation row, the user message with exactly one
\* assistant message, to the persisted history of its session when the
\* store commit succeeded, and nothing when the commit raised.
C6_DirectTurnAppendsOneIfCommitted ==
    (pc = "done" /\ DirectTurn /\ failure = "") =>
        /\ saved \in {"committed", "failed"}
        /\ saved = "committed" =>
              /\ db = Append(db0, Conversation(session_id, message, full_response))
              /\ AppendedMessages =
                    <<Msg("user", message), Msg("assistant", full_response)>>
        /\ saved = "failed" => db = db0 /\ AppendedMessages = <<>>
        /\ mode = "chat" => full_response = response_message.content

\* C6 witness: a direct reply was committed in a session that already had a row.
C6_Witness ==
    /\ pc = "done" /\ DirectTurn /\ failure = "" /\ saved = "committed"
    /\ PersistedHistory(db0, session_id) # <<>>

\* C7: a turn with a function call that ends without an error and whose
\* commit succeeded has added, besides the user message, exactly three
\* messages to the persisted history of its session: the assistant
\* function call, the function message with the serialized result, and the
\* final assistant text.
C7_ToolTurnAppendsThree ==
    (pc = "done" /\ ToolTurn /\ failure = "" /\ saved = "committed") =>
        SelectSeq(AppendedMessages, LAMBDA m : m.role # "user") =
            << FunctionCallMessage(response_message.function_call),
               FunctionMessage(response_message.function_call.name,
                               JsonDumps(function_result)),
               Msg("assistant", full_response) >>

\* the text chat returns for a direct reply, given the history and the message
ChatDirectReplies(history, msg) ==
    ReplyTexts(Request(<<Msg("system", SystemPrompt("chat"))>> \o history
                          \o <<Msg("user", msg)>>, TRUE, FALSE))

\* C8: for a turn without a function call and a deterministic reasoning
\* service, the concatenation of the content fragments of chat_stream is the
\* response text chat returns for the same history and message.
C8_StreamEqualsChat ==
    (pc = "done" /\ mode = "stream" /\ DirectTurn /\ failure = "") =>
        \A t \in ChatDirectReplies(history0, message) :
            Concat(ContentFragments) = t

\* C9: a chat_stream run read to its end has yielded exactly one done event,
\* as its last event, whether the turn succeeded or raised at any point; no
\* done event is yielded before the end.
C9_ExactlyOneDoneLast ==
    mode = "stream" =>
        /\ pc = "done" =>
              /\ Len(DoneEvents) = 1
              /\ events[Len(events)].done
        /\ pc \notin {"done", "idle"} => DoneEvents = <<>>

\* C9 witness: the stream broke after a fragment had been sent.
C9_Witness ==
    /\ pc = "done" /\ mode = "stream" /\ failure = "stream read"
    /\ Len(events) >= 3 /\ ~events[1].error

\* C10: if the first or the second reasoning call of chat raises, chat returns
\* a dict with success false, and neither the conversations table nor the
\* cached history of the session has gained anything in the turn.
C10_ReasoningFailureLeavesNoTrace ==
    (pc = "done" /\ mode = "chat"
       /\ failure \in {"first reasoning call", "second reasoning call"}) =>
        /\ Len(result) = 1
        /\ ~result[1].success
        /\ result[1].session_id = session_id
        /\ db = db0
        /\ session_id \in DOMAIN conversation_memory
        /\ conversation_memory[session_id] = history0

\* C10 witness: the second reasoning call failed after a tool had run, in a
\* session with history.
C10_Witness ==
    /\ pc = "done" /\ mode = "chat" /\ failure = "second reasoning call"
    /\ invoked # <<>> /\ history0 # <<>>

\* C11: when the store commit of _save_conversation raises, the turn still
\* hands the final text to the caller as a success (chat returns it with
\* success true; chat_stream has sent it and ends with the end signal, without
\* an error event), the failure is reported by the line printed in the except
\* branch, no row is added, and the cached history of the session is the one
\* the turn started with.
C11_StoreFailureReportedTurnSucceeds ==
    (pc = "done" /\ saved = "failed") =>
        /\ printed = << "Error saving conversation" >>
        /\ failure = ""
        /\ mode = "chat" =>
              result = << [response |-> full_response, session_id |-> session_id,
                           success |-> TRUE, error |-> ""] >>
        /\ mode = "stream" =>
              /\ Concat(ContentFragments) = full_response
              /\ \A i \in 1..Len(events) : ~events[i].error
              /\ events[Len(events)].done
        /\ db = db0
        /\ session_id \in DOMAIN conversation_memory
        /\ conversation_memory[session_id] = history0

\* C11 witness: chat returned a tool turn's final text although the commit
\* raised, in a session that had history.
C11_Witness ==
    /\ pc = "done" /\ mode = "chat" /\ saved = "failed"
    /\ result # <<>> /\ result[1].success /\ ToolTurn /\ history0 # <<>>

\* C12: in every turn the session id is not empty; it is the caller's when
\* the caller passed one, and otherwise a generated one that no stored row had
\* before the turn; every result of chat and every event of chat_stream
\* carries it, and every row the turn stores has it as its session_id.
C12_SessionIdCarried ==
    pc # "idle" =>
        /\ session_id # ""
        /\ caller_session_id # "" => session_id = caller_session_id
        /\ caller_session_id = "" =>
              \A i \in 1..Len(db0) : db0[i].session_id # session_id
        /\ \A i \in 1..Len(events) : events[i].session_id = session_id
        /\ \A i \in 1..Len(result) : result[i].session_id = session_id
        /\ \A i \in (Len(db0) + 1)..Len(db) : db[i].session_id = session_id

\* C12 witness: a stream without a caller session id was sent, ended and stored
\* after an earlier turn had stored a row.
C12_Witness ==
    /\ pc = "done" /\ mode = "stream" /\ caller_session_id = ""
    /\ Len(events) >= 2 /\ saved = "committed" /\ db0 # <<>>

\* C13: a tool step that calls update_student with an id that is not in the
\* students table leaves the table and the activity log as they are, gives a
\* dict with success false as the tool result, and does not raise into the
\* turn: the turn goes on to its second reasoning call.
C13_UpdateUnknownStudent ==
    [][ (/\ pc = "tool"
         /\ response_message.function_call.name = "update_student"
         /\ JsonLoads(response_message.function_call.arguments).ok
         /\ JsonLoads(response_message.function_call.arguments).id
               \notin DOMAIN students)
        => (/\ students' = students
            /\ activity_log' = activity_log
            /\ function_result'.kind = "dict"
            /\ function_result'.success = "false"
            /\ failure' = ""
            /\ pc' = "reason2") ]_vars

\* C13 witness: update_student was entered for an id that is not stored and
\* answered without raising.
C13_Witness ==
    /\ pc = "reason2" /\ ToolTurn
    /\ response_message.function_call.name = "update_student"
    /\ JsonLoads(response_message.function_call.arguments).id \notin DOMAIN students
    /\ invoked # <<>> /\ invoked[1].entered /\ ~invoked[1].raised
    /\ function_result.success = "false"

\* C14: after a turn that ended without an error and whose row was committed,
\* every read of the session's history, by the agent that ran the turn or by a
\* newly built one, returns the history the turn started with followed by the
\* turn's user message and final assistant text, and a second read on the same
\* agent returns the same sequence and leaves the cache as the first left it.
C14_HistoryReadAfterTurn ==
    (pc = "done" /\ failure = "" /\ saved = "committed") =>
        \A new \in BOOLEAN :
            \A h \in GetConversationHistory(get_agent(new), session_id) :
                /\ h.history = history0 \o << Msg("user", message),
                                              Msg("assistant", full_response) >>
                /\ \A again \in GetConversationHistory(h.memory, session_id) :
                       again.history = h.history /\ again.memory = h.memory

\* C15: a disconnect check of event_generator that finds the client gone ends
\* the generator, and from that check on no event (content, done, retry or
\* error) is sent and the generator stays stopped.
C15_NothingForwardedAfterDisconnect ==
    [][ /\ (ev_pc = "check" /\ ~client_connected /\ ev_pc' # ev_pc)
            => ev_pc' = "disconnected"
        /\ (ev_pc = "disconnected" \/ ev_pc' = "disconnected")
            => (ev_pc' = "disconnected" /\ ev_forwarded' = ev_forwarded) ]_vars

\* C15 witness: the client went away after a token had been sent and before
\* the final item was; the next check ended the stream.
C15_Witness ==
    /\ ev_pc = "disconnected"
    /\ Len(ev_forwarded) >= 2 /\ ev_forwarded[1].event = "message"
    /\ ev_pending # <<>> /\ ev_pending[Len(ev_pending)].dict

\* C16: a DELETE of a stored student by an admin answers 200 and the student
\* is no longer stored; a GET of an id that is not stored, by an
\* authenticated user, answers 404.
C16_DeleteRemovesStudent ==
    /\ (/\ http.method = "DELETE"
         /\ Authenticated(http.bearer) /\ http.bearer.role = "admin"
         /\ http.id \in DOMAIN http.students_before)
        => (http.status = 200 /\ http.id \notin DOMAIN students)
    /\ (/\ http.method = "GET" /\ http.path = "/students/{student_id}"
         /\ Authenticated(http.bearer)
         /\ http.id \notin DOMAIN students)
        => http.status = 404

\* C17: a PUT of a stored student by staff or an admin, with a subset of the
\* fields name, department and email, answers 200; the student has the new
\* value in each supplied field and the old value in every other, and every
\* other student is as before.
C17_UpdateChangesSuppliedFields ==
    (/\ http.method = "PUT"
     /\ Authenticated(http.bearer) /\ http.bearer.role \in {"admin", "staff"}
     /\ http.id \in DOMAIN http.students_before)
    => /\ http.status = 200
       /\ DOMAIN students = DOMAIN http.students_before
       /\ \A i \in DOMAIN students :
              i # http.id => students[i] = http.students_before[i]
       /\ \A f \in valid_fields :
              students[http.id][f] =
                 IF f \in http.fields THEN UpdateValue(f)
                 ELSE http.students_before[http.id][f]

C20_FunctionCallTakesPrecedence ==
    (ToolTurn /\ response_message.content # NoneText /\ pc # "tool") =>
        /\ invoked # <<>>
        /\ invoked[1].name = response_message.function_call.name
        /\ \E i \in 1..Len(messages) :
              /\ messages[i].function_call = response_message.function_call
              /\ messages[i].content = NoneText
        /\ (pc = "done" /\ failure = "") =>
              /\ Len(calls) = 2
              /\ full_response \in ReplyTexts(calls[2])
              /\ mode = "chat" => result[1].response = full_response
              /\ mode = "stream" => Concat(ContentFragments) = full_response
              /\ saved = "committed" => db[Len(db)].response = full_response
              /\ (ReplyTexts(calls[1]) \cap ReplyTexts(calls[2]) = {})
                    => full_response # response_message.content
        /\ (pc = "done" /\ failure # "") =>
              /\ db = db0
              /\ mode = "chat" => result[1].response = ErrorMessage(failure)

\* C20 witness: chat returned and stored the second reply, which is not the
\* text that came with the function call.
C20_Witness ==
    /\ pc = "done" /\ mode = "chat" /\ ToolTurn /\ failure = ""
    /\ response_message.content # NoneText /\ saved = "committed"
    /\ result[1].response # response_message.content

\* C21: within a turn with a function call the steps come in the order first
\* reasoning call, tool execution, persistence of the tool exchange, second
\* reasoning call: a function is entered only after the first response is
\* known, and once the second reasoning call has been made the function
\* result is known and the store holds more rows than at the start of the turn.
C21_StepsInOrder ==
    /\ invoked # <<>> => (Len(calls) >= 1 /\ ToolTurn)
    /\ (ToolTurn /\ Len(calls) = 2) =>
          /\ pc # "tool"
          /\ Len(messages) >= 2
          /\ messages[Len(messages)].role = "function"
          /\ Len(db) > Len(db0)

\* C22: in every turn at most one function is entered and the reasoning
\* service is called at most twice; a function is entered only if the first
\* response carried a function call, and a second reasoning call is made only
\* in a turn with a function call, after its tool step.
C22_SingleHop ==
    /\ Len(invoked) <= 1
    /\ Len(calls) <= 2
    /\ invoked # <<>> => ToolTurn
    /\ Len(calls) = 2 =>
          /\ ToolTurn
          /\ messages[Len(messages)].role = "function"

SessionRows(rows, sid) == SelectSeq(rows, LAMBDA r : r.session_id = sid)

IsPrefix(s, t) == Len(s) <= Len(t) /\ SubSeq(t, 1, Len(s)) = s

SessionsOf(rows) == { rows[i].session_id : i \in 1..Len(rows) }

\* C25: no step of chat or chat_stream deletes or changes a stored
\* conversation row: the stored rows before a step are a prefix of the stored
\* rows after it, and so are the rows of every session.
C25_AppendOnly ==
    [][ /\ IsPrefix(db, db')
        /\ \A sid \in SessionsOf(db) \cup SessionsOf(db') :
              IsPrefix(SessionRows(db, sid), SessionRows(db', sid)) ]_vars

\* C25 witness: a second row was stored for a session that had one.
C25_Witness ==
    /\ Len(db) = 2 /\ Len(db0) = 1
    /\ db[1].session_id = db[2].session_id
    /\ db[1] = db0[1]

\* C30: in chat_stream the row a turn stores holds, as its response, the
\* concatenation in order of the content fragments the turn has sent, with
\* the turn's message and session; the end signal of a turn without an error
\* is sent only once the save has run, and nothing is stored before that.
C30_SavedTextIsStreamedText ==
    mode = "stream" =>
        /\ saved = "committed" =>
              /\ Len(db) = Len(db0) + 1
              /\ db[Len(db)].response = Concat(ContentFragments)
              /\ db[Len(db)].message = message
              /\ db[Len(db)].session_id = session_id
        /\ (DoneEvents # <<>> /\ failure = "") => saved # ""
        /\ saved = "" => db = db0
        /\ saved # "" => pc = "done"

\* C30 witness: a streamed turn sent its text in two fragments and stored it.
C30_Witness ==
    /\ mode = "stream" /\ saved = "committed" /\ pc = "done"
    /\ Len(ContentFragments) = 2
    /\ DoneEvents # <<>>

MaxExchanges == 11

HistorySession == "s1"

\* the user message and the reply of the turn that adds the k-th row of the
\* conversation: the first two exchanges differ from each other and from the
\* later ones, which repeat one message and one reply
NthMessage(k) == <<"m", ToString(IF k <= 2 THEN k ELSE 0)>>

NthReply(k) == <<"r", ToString(IF k <= 2 THEN k ELSE 0)>>

InitHistory ==
    /\ IdleAgent
    /\ IdleApi
    /\ g_message = <<>>
    /\ g_verdict = "pending"

\* Lines 187-192 of chat: a turn of the session starts and reads its history,
\* on a new agent or on the one that served the turn before.
ReadHistory(new) ==
    /\ pc \in {"idle", "done"}
    /\ session_id' = HistorySession
    /\ caller_session_id' = HistorySession
    /\ message' = NthMessage(Len(db) + 1)
    /\ full_response' = NthReply(Len(db) + 1)
    /\ db0' = db
    /\ saved' = ""
    /\ \E h \in GetConversationHistory(get_agent(new), HistorySession) :
          /\ conversation_memory' = h.memory
          /\ history0' = h.history
    /\ pc' = "save"
    /\ UNCHANGED <<db, activity_log, students, turns, mode, messages, response_message,
                   function_result, stream, result, events, calls, invoked,
                   failure, printed, service, guardVars, apiVars>>

\* Line 265 of chat: the turn got its reply and saves the exchange. The
\* store takes MaxExchanges rows.
SaveExchange ==
    /\ pc = "save"
    /\ Len(db) < MaxExchanges
    /\ \E s \in SaveConversation(session_id, message, full_response) :
          /\ db' = s.db
          /\ conversation_memory' = s.memory
          /\ saved' = s.saved
          /\ printed' = s.printed
    /\ pc' = "done"
    /\ UNCHANGED <<activity_log, students, turns, mode, session_id,
                   caller_session_id, message, messages, response_message,
                   function_result, stream, full_response, result, events, calls,
                   invoked, failure, db0, history0, service, guardVars, apiVars>>

\* Lines 273-280 of chat: the turn raised after the history read; nothing is
\* saved.
DropExchange ==
    /\ pc = "save"
    /\ pc' = "done"
    /\ UNCHANGED <<db, conversation_memory, activity_log, students, turns, mode,
                   session_id, caller_session_id, message, messages,
                   response_message, function_result, stream, full_response,
                   result, events, calls, invoked, failure, saved, printed, db0,
                   history0, service, guardVars, apiVars>>

NextHistory ==
    \/ \E new \in BOOLEAN : ReadHistory(new)
    \/ SaveExchange
    \/ DropExchange

SpecHistory == InitHistory /\ [][NextHistory]_vars

\* C26: the cached history of every session holds at most 20 messages, an
\* even number of them, user and assistant messages in turn starting with a
\* user message; and the save of a turn leaves in the cache the history the
\* turn read followed by the turn's user message and reply, cut to its
\* newest 20 messages when that makes more than 20.
C26_CacheBounded ==
    /\ \A sid \in DOMAIN conversation_memory :
          LET h == conversation_memory[sid]
          IN  /\ Len(h) <= 20
              /\ Len(h) % 2 = 0
              /\ \A i \in 1..Len(h) :
                    h[i].role = (IF i % 2 = 1 THEN "user" ELSE "assistant")
    /\ (pc = "done" /\ saved = "committed") =>
          LET grown == history0 \o << Msg("user", message),
                                      Msg("assistant", full_response) >>
              n == Len(grown)
          IN  /\ session_id \in DOMAIN conversation_memory
              /\ conversation_memory[session_id] =
                    (IF n > 20 THEN [i \in 1..20 |-> grown[n - 20 + i]] ELSE grown)

\* C26 witness: the eleventh exchange was saved on an agent whose cache held
\* twenty messages, and the cache was cut.
C26_Witness ==
    /\ pc = "done" /\ saved = "committed"
    /\ Len(history0) = 20 /\ Len(db) = 11
    /\ Len(conversation_memory[session_id]) = 20
    /\ conversation_memory[session_id][19] = Msg("user", message)

\* C27: the history a turn hands to the reasoning service ends with the
\* exchange of the session that was stored last, whether the history comes
\* from the cache or was loaded from the store by an agent that had not
\* cached the session.
C27_HistoryEndsWithNewest ==
    (pc = "save" /\ SessionRows(db, session_id) # <<>>) =>
        LET rows == SessionRows(db, session_id)
            last == rows[Len(rows)]
            n == Len(history0)
        IN  /\ n >= 2
            /\ history0[n - 1] = Msg("user", last.message)
            /\ history0[n] = Msg("assistant", last.response)

(***************************************************************************)
(* The document tools of tools_new.py                                      *)
(***************************************************************************)
MaxOps == 3

ToolStudentIds == {"S1", "S2"}

ToolEmails == {"e0", "e1"}

\* the fields a StudentUpdate sets in this model: none, the name or the email
UpdateFields == {"", "name", "email"}

toolFrame == <<turnVars, guardVars, streamVars, users, issued, http>>

\* Student.find_one({key: value}): the first matching document in natural
\* order
FindOne(docs, key, value) ==
    LET found == SelectSeq(docs, LAMBDA d : d[key] = value)
    IN  IF found = <<>> THEN NoDoc ELSE found[1]

\* Student.find_one({"email": email, "student_id": {"$ne": id}})
FindOneOther(docs, email, id) ==
    LET found == SelectSeq(docs, LAMBDA d : d.email = email /\ d.student_id # id)
    IN  IF found = <<>> THEN NoDoc ELSE found[1]

\* position of the document a Student object stands for
PositionOf(docs, doc) ==
    LET at == { i \in 1..Len(docs) : docs[i] = doc }
    IN  IF at = {} THEN 0 ELSE CHOOSE k \in at : \A j \in at : k <= j

\* student.set(update_dict)
SetDocument(docs, doc, field, value) ==
    LET k == PositionOf(docs, doc)
    IN  IF k = 0 THEN docs ELSE [docs EXCEPT ![k] = [doc EXCEPT ![field] = value]]

\* student.delete()
DeleteDocument(docs, doc) ==
    LET k == PositionOf(docs, doc)
    IN  IF k = 0 THEN docs
        ELSE SubSeq(docs, 1, k - 1) \o SubSeq(docs, k + 1, Len(docs))

Running(t) == tasks[t].pc \notin {"idle", "done"}

\* a call of CampusTools starts
Begin(t, op, first, full, id, email, field, value) ==
    /\ ~Running(t)
    /\ tool_ops < MaxOps
    /\ tool_ops' = tool_ops + 1
    /\ tasks' = [tasks EXCEPT ![t] =
                   [op |-> op, pc |-> first, full |-> full, student_id |-> id,
                    email |-> email, field |-> field, value |-> value,
                    activity_type |-> "", doc |-> NoDoc, outcome |-> "",
                    docs_before |-> student_docs, log_before |-> activity_docs]]
    /\ UNCHANGED <<student_docs, activity_docs, toolFrame>>

\* the call ends: it returns or raises
Finish(t, outcome) ==
    tasks' = [tasks EXCEPT ![t] = [@ EXCEPT !.pc = "done", !.outcome = outcome]]

Goto(t, next) ==
    tasks' = [tasks EXCEPT ![t] = [@ EXCEPT !.pc = next]]

\* Line 20: add_student(student_data). The object carries a student_id; a
\* StudentCreate as declared carries nothing else, a full one also the name,
\* the department and the email.
add_student(t, full, id, email) ==
    Begin(t, "add_student", "add_find_id", full, id, IF full THEN email ELSE "", "", "")

\* An add_student that does not look for the student_id.
add_find_id_skipped(t) ==
    /\ tasks[t].pc = "add_find_id"
    /\ Goto(t, "add_find_email")
    /\ UNCHANGED <<student_docs, activity_docs, tool_ops, toolFrame>>

\* Lines 24-28: the lookup by student_id
add_find_id(t) ==
    /\ tasks[t].pc = "add_find_id"
    /\ LET id == tasks[t].student_id
           existing_student == FindOne(student_docs, "student_id", id)
       IN  IF existing_student # NoDoc
           THEN Finish(t, "ValueError")
           ELSE Goto(t, "add_find_email")
    /\ UNCHANGED <<student_docs, activity_docs, tool_ops, toolFrame>>

\* Lines 31-35: the lookup by email; student_data.email raises AttributeError
\* on an object without the attribute
add_find_email(t) ==
    /\ tasks[t].pc = "add_find_email"
    /\ LET email == tasks[t].email
           existing_email == FindOne(student_docs, "email", email)
       IN  IF ~tasks[t].full
           THEN Finish(t, "AttributeError")
           ELSE IF existing_email # NoDoc
           THEN Finish(t, "ValueError")
           ELSE Goto(t, "add_insert")
    /\ UNCHANGED <<student_docs, activity_docs, tool_ops, toolFrame>>

\* Lines 38-51: the insert; log_activity comes next
add_insert(t) ==
    /\ tasks[t].pc = "add_insert"
    /\ student_docs' = Append(student_docs,
                              StudentDoc(tasks[t].student_id, "n", "d", tasks[t].email))
    /\ tasks' = [tasks EXCEPT ![t] = [@ EXCEPT !.pc = "log_find",
                                                !.activity_type = "student_added"]]
    /\ UNCHANGED <<activity_docs, tool_ops, toolFrame>>

\* Lines 137-139 (and 62-64): log_activity looks the student up; get_student
\* raises ValueError when there is none
log_activity_find(t) ==
    /\ tasks[t].pc = "log_find"
    /\ LET id == tasks[t].student_id
           student == FindOne(student_docs, "student_id", id)
       IN  IF student = NoDoc
           THEN Finish(t, "ValueError")
           ELSE Goto(t, "log_insert")
    /\ UNCHANGED <<student_docs, activity_docs, tool_ops, toolFrame>>

\* Lines 141-149: the activity is inserted, or the insert raises
log_activity_insert(t) ==
    /\ tasks[t].pc = "log_insert"
    /\ \/ /\ activity_docs' = Append(activity_docs,
                                     [student_id |-> tasks[t].student_id,
                                      activity_type |-> tasks[t].activity_type])
          /\ Finish(t, "returned")
       \/ /\ UNCHANGED activity_docs
          /\ Finish(t, "error")
    /\ UNCHANGED <<student_docs, tool_ops, toolFrame>>

\* Line 78: update_student(student_id, update_data)
tools_update_student(t, id, field, value) ==
    Begin(t, "update_student", "update_find", TRUE, id, "", field, value)

\* Lines 81-94: get_student raises ValueError for an unknown student_id; an
\* update of the email looks for another student with that email next
update_find(t) ==
    /\ tasks[t].pc = "update_find"
    /\ LET id == tasks[t].student_id
           student == FindOne(student_docs, "student_id", id)
       IN  IF student = NoDoc
           THEN Finish(t, "ValueError")
           ELSE tasks' = [tasks EXCEPT ![t] =
                   [@ EXCEPT !.doc = student,
                             !.pc = IF tasks[t].field = "email"
                                    THEN "update_find_email" ELSE "update_set"]]
    /\ UNCHANGED <<student_docs, activity_docs, tool_ops, toolFrame>>

\* Lines 88-94: the email must not belong to another student
update_find_email(t) ==
    /\ tasks[t].pc = "update_find_email"
    /\ LET id == tasks[t].student_id
           email == tasks[t].value
           existing_email == FindOneOther(student_docs, email, id)
       IN  IF existing_email # NoDoc
           THEN Finish(t, "ValueError")
           ELSE Goto(t, "update_set")
    /\ UNCHANGED <<student_docs, activity_docs, tool_ops, toolFrame>>

\* Lines 96-107: an empty update returns the student; otherwise the fields
\* are set and log_activity comes next
update_set(t) ==
    /\ tasks[t].pc = "update_set"
    /\ IF tasks[t].field = ""
       THEN /\ Finish(t, "returned")
            /\ UNCHANGED student_docs
       ELSE /\ student_docs' = SetDocument(student_docs, tasks[t].doc,
                                           tasks[t].field, tasks[t].value)
            /\ tasks' = [tasks EXCEPT ![t] = [@ EXCEPT !.pc = "log_find",
                                                       !.activity_type = "student_updated"]]
    /\ UNCHANGED <<activity_docs, tool_ops, toolFrame>>

\* Line 113: delete_student(student_id)
tools_delete_student(t, id) ==
    Begin(t, "delete_student", "delete_find", TRUE, id, "", "", "")

\* Lines 116-118: get_student raises ValueError for an unknown student_id
delete_find(t) ==
    /\ tasks[t].pc = "delete_find"
    /\ LET id == tasks[t].student_id
           student == FindOne(student_docs, "student_id", id)
       IN  IF student = NoDoc
           THEN Finish(t, "ValueError")
           ELSE tasks' = [tasks EXCEPT ![t] = [@ EXCEPT !.doc = student,
                                                         !.pc = "delete_remove"]]
    /\ UNCHANGED <<student_docs, activity_docs, tool_ops, toolFrame>>

\* Lines 120-127: the document is deleted; log_activity comes next
delete_remove(t) ==
    /\ tasks[t].pc = "delete_remove"
    /\ student_docs' = DeleteDocument(student_docs, tasks[t].doc)
    /\ tasks' = [tasks EXCEPT ![t] = [@ EXCEPT !.pc = "log_find",
                                                !.activity_type = "student_deleted"]]
    /\ UNCHANGED <<activity_docs, tool_ops, toolFrame>>

InitTools ==
    /\ IdleAgent
    /\ IdleApi
    /\ g_message = <<>>
    /\ g_verdict = "pending"

\* the steps of a call in progress
ToolStep(t) ==
    \/ add_find_id(t)
    \/ add_find_email(t)
    \/ add_insert(t)
    \/ log_activity_find(t)
    \/ log_activity_insert(t)
    \/ update_find(t)
    \/ update_find_email(t)
    \/ update_set(t)
    \/ delete_find(t)
    \/ delete_remove(t)

\* One caller: every call is awaited before the next one starts.
NextTools ==
    \/ \E full \in BOOLEAN, id \in ToolStudentIds, e \in ToolEmails :
          add_student(1, full, id, e)
    \/ \E id \in ToolStudentIds, f \in UpdateFields, v \in ToolEmails :
          tools_update_student(1, id, f, IF f = "name" THEN "n1" ELSE IF f = "email" THEN v ELSE "")
    \/ \E id \in ToolStudentIds : tools_delete_student(1, id)
    \/ ToolStep(1)

SpecTools == InitTools /\ [][NextTools]_vars

\* the steps of an add_student in progress
AddStep(t) ==
    \/ add_find_id(t)
    \/ add_find_email(t)
    \/ add_insert(t)
    \/ log_activity_find(t)
    \/ log_activity_insert(t)

\* Two callers of add_student on one event loop: a call runs up to its next
\* await, then either call may go on.
NextConcurrentAdds ==
    \/ \E t \in Tasks, full \in BOOLEAN, id \in ToolStudentIds, e \in ToolEmails :
          add_student(t, full, id, e)
    \/ \E t \in Tasks : AddStep(t)

SpecConcurrentAdds == InitTools /\ [][NextConcurrentAdds]_vars

\* no two documents of the collection have the same student_id
UniqueStudentIds(docs) ==
    \A i, j \in 1..Len(docs) : i # j => docs[i].student_id # docs[j].student_id

\* the add_student call of t names a student_id or an email that a student
\* stored when the call started has
AddsDuplicate(t) ==
    /\ tasks[t].op = "add_student"
    /\ \E i \in 1..Len(tasks[t].docs_before) :
          \/ tasks[t].docs_before[i].student_id = tasks[t].student_id
          \/ tasks[t].full /\ tasks[t].docs_before[i].email = tasks[t].email

\* C24: with one caller, an add_student for a student_id or an email that a
\* stored student has never changes the students collection or the activity
\* log and ends by raising ValueError; and whatever adds, updates and deletes
\* have run, no two stored students have the same student_id.
C24_DuplicateAddRejected ==
    /\ \A t \in Tasks :
          AddsDuplicate(t) =>
             /\ student_docs = tasks[t].docs_before
             /\ activity_docs = tasks[t].log_before
             /\ tasks[t].pc = "done" => tasks[t].outcome = "ValueError"
    /\ UniqueStudentIds(student_docs)

\* C24 witness: with two students stored, an add for the student_id of the
\* second was refused.
C24_Witness ==
    /\ tasks[1].op = "add_student" /\ tasks[1].pc = "done"
    /\ tasks[1].student_id = "S2" /\ tasks[1].outcome = "ValueError"
    /\ Len(student_docs) = 2
    /\ student_docs = tasks[1].docs_before

\* C29: of two add_student calls for one student_id that run on the same
\* event loop at most one returns, and the collection never holds two
\* students with the same student_id.
C29_ConcurrentAddsOneWinner ==
    /\ UniqueStudentIds(student_docs)
    /\ ~ /\ tasks[1].op = "add_student" /\ tasks[2].op = "add_student"
         /\ tasks[1].student_id = tasks[2].student_id
         /\ tasks[1].outcome = "returned" /\ tasks[2].outcome = "returned"

====
